---- MODULE Spec2Model ----
\* git-heat: per-file change counts over a commit range, following renames.
\* A verification model of src/src/lib.rs and src/src/main.rs.
\*
\* Three specifications share the variables below:
\*   Spec       the aggregation stage of main (main.rs:71-88): parallel
\*              get_files_changed over the collected diffs with one shared
\*              rename table, reduce_with, retain and sort;
\*   SpecSel    the traversal stage of main (main.rs:36-69): open, revwalk,
\*              commits_in_date_range, pair_commits, get_diff_of_commits;
\*   SpecMerge  the reduce_with closure (main.rs:77-82) as a pure function.
EXTENDS Integers, Sequences, FiniteSets, TLC

VARIABLES
    \* ---- aggregation stage (Spec) ----
    diffs,      \* Vec<Diff> collected at main.rs:69; diffs[1] is the newest commit's
    pos,        \* pos[i]: deltas of diffs[i] already handed to process_delta
    st,         \* st[i]: "todo" (map not finished), "done" (table returned), "absorbed" (reduced away)
    renames,    \* the shared rename table: old path -> newer path
    changes,    \* changes[i]: the table of get_files_changed(diffs[i]), later the reduce accumulator
    hung,       \* hung[i]: worker i is inside the chain-follow loop and will never leave it
    final,      \* the table after reduce_with(..).unwrap_or_default()
    out,        \* the rows after retain and sort_by_key, with the --min used
    pc,         \* position of main
    \* ---- pure merge (SpecMerge) ----
    inputs,     \* the partial tables handed to the merge
    tables,     \* what is left of them while they are merged pairwise
    \* ---- traversal stage (SpecSel) ----
    parents,    \* the commit graph: parents[c] is the set of parents of commit c; HEAD is the last commit
    winFrom,    \* the window's lower bound, an OffsetDateTime
    winTo,      \* the window's upper bound, an OffsetDateTime
    walked,     \* commits the revwalk has stepped over
    last,       \* what the last revwalk step produced
    yielded,    \* the commits commits_in_date_range has yielded, in order
    exhausted,  \* the fused upstream of peek_nth has returned None
    buf,        \* the lookahead buffer of peek_nth
    cur,        \* the element it.next() gave the batching closure, NoCommit if none
    pairs,      \* the pairs pair_commits has emitted
    diffed,     \* the pairs whose Diff has been pushed to the Vec
    failures    \* the backend failures that have occurred in the run

aggVars == <<diffs, pos, st, renames, changes, hung, final, out>>
mergeVars == <<inputs, tables>>
selVars == <<parents, winFrom, winTo, walked, last, yielded, exhausted, buf, cur,
             pairs, diffed, failures>>
vars == <<aggVars, mergeVars, selVars, pc>>

-----------------------------------------------------------------------------
\* Bounds of the model

MaxDiffs == 3       \* diffs in one run
MaxDeltas == 1      \* deltas in one diff
MaxMin == 2         \* largest --min tried
MaxTables == 3      \* tables handed to the pure merge
MaxCount == 2       \* largest count in a table handed to the pure merge
MaxCommits == 3     \* commits in the repository
UnixRange == 10800  \* stand-in for the largest timestamp `time` represents
                    \* (year 9999, beyond TLC's integers)

-----------------------------------------------------------------------------
\* Paths, deltas and tables

Paths == {"a", "b", "c"}
NoPath == "<none>"          \* Option::None for a path
Diverges == "<diverges>"    \* the chain-follow loop never terminates

Discarded == {"Unmodified", "Ignored", "Untracked", "Unreadable", "Conflicted"}
Statuses == Discarded \cup {"Added", "Copied", "Deleted", "Renamed", "Typechange", "Modified"}

\* The deltas a diff may carry. A discarded delta's paths are never read; an
\* added delta has no old path and a deleted one no new path; a modified or
\* type-changed delta keeps its path; a rename or copy has two different paths.
Deltas ==
    {[status |-> s, old |-> "a", new |-> "a"] : s \in Discarded}
    \cup {[status |-> "Added", old |-> NoPath, new |-> p] : p \in Paths}
    \cup {[status |-> "Deleted", old |-> p, new |-> NoPath] : p \in Paths}
    \cup {[status |-> "Modified", old |-> p, new |-> p] : p \in Paths}
    \cup {[status |-> "Typechange", old |-> p, new |-> p] : p \in Paths}
    \cup {[status |-> "Copied", old |-> "c", new |-> p] : p \in Paths \ {"c"}}
    \cup {[status |-> "Renamed", old |-> x[1], new |-> x[2]] :
                x \in {y \in Paths \X Paths : y[1] # y[2]}}

EmptyTable == [p \in {} |-> 0]

\* changes.insert(filename, 1): the entry is set, not incremented
CountSets(tbl, filename) ==
    [p \in DOMAIN tbl \cup {filename} |-> IF p = filename THEN 1 ELSE tbl[p]]

\* *changes.entry(filename).or_default() += 1
Count(tbl, filename) ==
    [p \in DOMAIN tbl \cup {filename} |->
        (IF p \in DOMAIN tbl THEN tbl[p] ELSE 0) + (IF p = filename THEN 1 ELSE 0)]

\* renames.insert(old, new)
Insert(r, old, new) ==
    [p \in DOMAIN r \cup {old} |-> IF p = old THEN new ELSE r[p]]

\* while let Some(renamed) = renames.get(&filename) { filename = renamed.clone() }
\* A chain without a cycle passes through at most Cardinality(DOMAIN r) keys,
\* so a lookup that is still at a key after that many hops loops forever.
RECURSIVE Follow(_, _, _)
Follow(r, filename, fuel) ==
    IF filename \notin DOMAIN r THEN filename
    ELSE IF fuel = 0 THEN Diverges
    ELSE Follow(r, r[filename], fuel - 1)

\* a single lookup in place of the loop
ResolveOneHop(r, filename) == IF filename \in DOMAIN r THEN r[filename] ELSE filename

Resolve(r, filename) == Follow(r, filename, Cardinality(DOMAIN r))

\* The match of process_delta: the path to count, NoPath for None.
FileName(delta, r) ==
    CASE delta.status \in Discarded -> NoPath
      [] delta.status \in {"Added", "Copied"} -> delta.new
      [] delta.status = "Deleted" -> delta.old
      [] delta.status \in {"Renamed", "Typechange"} -> delta.new
      [] delta.status = "Modified" -> Resolve(r, delta.old)

\* The rename table after process_delta.
\* a table that records a copy as if it were a rename
RenamesAfterCopied(delta, r) ==
    IF delta.status \in {"Renamed", "Typechange", "Copied"}
    THEN Insert(r, delta.old, delta.new)
    ELSE r

RenamesAfter(delta, r) ==
    IF delta.status \in {"Renamed", "Typechange"}
    THEN Insert(r, delta.old, delta.new)
    ELSE r

\* if let Some(filename) = filename { *changes.entry(filename).or_default() += 1 }
\* a count made whether or not there is a path to count
ChangesAfterAlways(tbl, filename) == Count(tbl, filename)

ChangesAfter(tbl, filename) ==
    IF filename = NoPath THEN tbl ELSE Count(tbl, filename)

\* The reduce_with closure: for (k, v) in changes { *acc.entry(k).or_default() += v }
RECURSIVE MergeKeys(_, _, _)
MergeKeys(acc, tbl, keys) ==
    IF keys = {} THEN acc
    ELSE LET k == CHOOSE x \in keys : TRUE
             v == tbl[k]
             acc2 == [p \in DOMAIN acc \cup {k} |->
                        (IF p \in DOMAIN acc THEN acc[p] ELSE 0) + (IF p = k THEN v ELSE 0)]
         IN MergeKeys(acc2, tbl, keys \ {k})

\* a merge that overwrites an entry instead of adding to it
MergeOverwrite(acc, tbl) ==
    [p \in DOMAIN acc \cup DOMAIN tbl |-> IF p \in DOMAIN tbl THEN tbl[p] ELSE acc[p]]

\* a reducer that hands back the incoming table and drops the accumulator
MergeDropsAcc(acc, tbl) == tbl

Merge(acc, tbl) == MergeKeys(acc, tbl, DOMAIN tbl)

\* retain(|(_, v)| *v >= min) on the rows of a table
Retain(tbl, min) == {p \in DOMAIN tbl : tbl[p] >= min}

\* sort_by_key(|(_, v)| -(*v as i64)): the rows in ascending order of the key.
\* The rows come out of a HashMap in an arbitrary order and the sort is stable,
\* so every order of the kept rows with non-decreasing keys can be produced.
\* a key that sorts the smallest count first
SortKeyAscending(row) == row[2]

SortKey(row) == 0 - row[2]

SortedRows(tbl, keep) ==
    {rows \in [1..Cardinality(keep) -> {<<p, tbl[p]>> : p \in keep}] :
        /\ \A i, j \in DOMAIN rows : i # j => rows[i] # rows[j]
        /\ \A i, j \in DOMAIN rows : i < j => SortKey(rows[i]) <= SortKey(rows[j])}

-----------------------------------------------------------------------------
\* Sequential newest-first aggregation: get_files_changed called on the diffs
\* one after the other with one rename table, the tables merged in order.

RECURSIVE SeqDiff(_, _, _)
SeqDiff(diff, r, tbl) ==
    IF diff = <<>> THEN [ok |-> TRUE, renames |-> r, changes |-> tbl]
    ELSE LET filename == FileName(Head(diff), r)
         IN IF filename = Diverges
            THEN [ok |-> FALSE, renames |-> r, changes |-> tbl]
            ELSE SeqDiff(Tail(diff), RenamesAfter(Head(diff), r), ChangesAfter(tbl, filename))

RECURSIVE SeqRun(_, _, _)
SeqRun(ds, r, acc) ==
    IF ds = <<>> THEN [ok |-> TRUE, renames |-> r, changes |-> acc]
    ELSE LET one == SeqDiff(Head(ds), r, EmptyTable)
         IN IF ~one.ok THEN one
            ELSE SeqRun(Tail(ds), one.renames, Merge(acc, one.changes))

SeqFinal(ds) == SeqRun(ds, EmptyTable, EmptyTable)

-----------------------------------------------------------------------------
\* Values of the variables a specification does not use

NoCommit == 0
NoTime == [seconds |-> 0, offset_minutes |-> 0]
NoStep == [kind |-> "none", commit |-> NoCommit, time |-> NoTime]
UnixEpoch == [local |-> 0, offset |-> 0]

IdleAgg ==
    /\ diffs = <<>>
    /\ pos = <<>>
    /\ st = <<>>
    /\ renames = EmptyTable
    /\ changes = <<>>
    /\ hung = <<>>
    /\ final = EmptyTable
    /\ out = [min |-> 0, rows |-> <<>>]

IdleMerge ==
    /\ inputs = <<>>
    /\ tables = <<>>

IdleSel ==
    /\ parents = <<>>
    /\ winFrom = UnixEpoch
    /\ winTo = UnixEpoch
    /\ walked = {}
    /\ last = NoStep
    /\ yielded = <<>>
    /\ exhausted = FALSE
    /\ buf = <<>>
    /\ cur = NoCommit
    /\ pairs = <<>>
    /\ diffed = <<>>
    /\ failures = {}

-----------------------------------------------------------------------------
\* The aggregation stage of main

BoundedSeq(S, n) == UNION {[1..k -> S] : k \in 0..n}

DiffUniverse == BoundedSeq(Deltas, MaxDeltas)

InitAgg ==
    /\ diffs \in BoundedSeq(DiffUniverse, MaxDiffs)
    /\ pos = [i \in DOMAIN diffs |-> 0]
    /\ st = [i \in DOMAIN diffs |-> "todo"]
    /\ renames = EmptyTable
    /\ changes = [i \in DOMAIN diffs |-> EmptyTable]
    /\ hung = [i \in DOMAIN diffs |-> FALSE]
    /\ final = EmptyTable
    /\ out = [min |-> 0, rows |-> <<>>]
    /\ pc = "aggregate"
    /\ IdleMerge
    /\ IdleSel

\* One call of the foreach callback in worker i: process_delta on the next
\* delta of diffs[i]. A modified delta whose chain-follow meets a cycle never
\* returns.
ProcessDelta(i, delta) ==
    /\ pc = "aggregate"
    /\ st[i] = "todo"
    /\ ~hung[i]
    /\ LET filename == FileName(delta, renames)
       IN IF filename = Diverges
          THEN /\ hung' = [hung EXCEPT ![i] = TRUE]
               /\ UNCHANGED <<pos, renames, changes>>
          ELSE /\ renames' = RenamesAfter(delta, renames)
               /\ changes' = [changes EXCEPT ![i] = ChangesAfter(@, filename)]
               /\ pos' = [pos EXCEPT ![i] = @ + 1]
               /\ UNCHANGED hung
    /\ UNCHANGED <<diffs, st, final, out, pc, mergeVars, selVars>>

ForeachDelta(i) ==
    /\ pos[i] < Len(diffs[i])
    /\ ProcessDelta(i, diffs[i][pos[i] + 1])

\* diff.foreach has visited every delta: get_files_changed returns changes.
ReturnChanges(i) ==
    /\ pc = "aggregate"
    /\ st[i] = "todo"
    /\ pos[i] = Len(diffs[i])
    /\ st' = [st EXCEPT ![i] = "done"]
    /\ UNCHANGED <<diffs, pos, renames, changes, hung, final, out, pc, mergeVars, selVars>>

\* reduce_with combines two neighbouring finished results, the left one as acc.
ReduceWith(i, j) ==
    /\ pc = "aggregate"
    /\ i < j
    /\ st[i] = "done" /\ st[j] = "done"
    /\ \A k \in DOMAIN st : (i < k /\ k < j) => st[k] = "absorbed"
    /\ changes' = [changes EXCEPT ![i] = Merge(changes[i], changes[j]), ![j] = EmptyTable]
    /\ st' = [st EXCEPT ![j] = "absorbed"]
    /\ UNCHANGED <<diffs, pos, renames, hung, final, out, pc, mergeVars, selVars>>

\* What reduce_with returns once every worker is through: None (the empty
\* sequence) when there was no table at all, Some(table) otherwise.
Reduced ==
    IF \E i \in DOMAIN st : st[i] = "done"
    THEN <<changes[CHOOSE i \in DOMAIN st : st[i] = "done"]>>
    ELSE <<>>

\* Option::unwrap(): a panic on None
Unwrap(opt) ==
    IF opt = <<>> THEN [ok |-> FALSE, table |-> EmptyTable]
    ELSE [ok |-> TRUE, table |-> opt[1]]

\* Option::unwrap_or_default(): HashMap::default() on None
UnwrapOrDefault(opt) ==
    [ok |-> TRUE, table |-> IF opt = <<>> THEN EmptyTable ELSE opt[1]]

\* .unwrap_or_default().into_iter().collect::<Vec<_>>()
Collect ==
    /\ pc = "aggregate"
    /\ \A i \in DOMAIN st : st[i] # "todo"
    /\ Cardinality({i \in DOMAIN st : st[i] = "done"}) <= 1
    /\ final' = UnwrapOrDefault(Reduced).table
    /\ pc' = IF UnwrapOrDefault(Reduced).ok THEN "reduced" ELSE "panicked"
    /\ UNCHANGED <<diffs, pos, st, renames, changes, hung, out, mergeVars, selVars>>

\* changes.retain(..); changes.sort_by_key(..); the rows are then printed.
Report ==
    /\ pc = "reduced"
    /\ \E min \in 0..MaxMin :
         \E rows \in SortedRows(final, Retain(final, min)) :
            out' = [min |-> min, rows |-> rows]
    /\ pc' = "done"
    /\ UNCHANGED <<diffs, pos, st, renames, changes, hung, final, mergeVars, selVars>>

NextAgg ==
    \/ \E i \in DOMAIN diffs : ForeachDelta(i)
    \/ \E i \in DOMAIN diffs : ReturnChanges(i)
    \/ \E i, j \in DOMAIN diffs : ReduceWith(i, j)
    \/ Collect
    \/ Report

Spec == InitAgg /\ [][NextAgg]_vars

-----------------------------------------------------------------------------
\* The aggregation stage on two diffs of several deltas each: the same actions,
\* the deltas drawn from one of each kind that process_delta tells apart.

Workers == {1, 2}   \* the two diffs of such a run
MaxVisits == 2      \* deltas in one such diff

WorkDeltas ==
    {[status |-> "Unmodified", old |-> "a", new |-> "a"],
     [status |-> "Added", old |-> NoPath, new |-> "b"],
     [status |-> "Deleted", old |-> "b", new |-> NoPath],
     [status |-> "Renamed", old |-> "a", new |-> "b"],
     [status |-> "Typechange", old |-> "b", new |-> "b"],
     [status |-> "Modified", old |-> "a", new |-> "a"]}

InitWork ==
    /\ diffs \in [Workers -> BoundedSeq(WorkDeltas, MaxVisits)]
    /\ pos = [i \in DOMAIN diffs |-> 0]
    /\ st = [i \in DOMAIN diffs |-> "todo"]
    /\ renames = EmptyTable
    /\ changes = [i \in DOMAIN diffs |-> EmptyTable]
    /\ hung = [i \in DOMAIN diffs |-> FALSE]
    /\ final = EmptyTable
    /\ out = [min |-> 0, rows |-> <<>>]
    /\ pc = "aggregate"
    /\ IdleMerge
    /\ IdleSel

SpecWork == InitWork /\ [][NextAgg]_vars

-----------------------------------------------------------------------------
\* get_files_changed on one diff, whatever deltas it holds: foreach visits
\* them in order, then the table is returned, collected and reported.

MaxSteps == 3       \* deltas in the one diff

InitDelta ==
    /\ diffs \in [{1} -> BoundedSeq(Deltas, MaxSteps)]
    /\ pos = [i \in DOMAIN diffs |-> 0]
    /\ st = [i \in DOMAIN diffs |-> "todo"]
    /\ renames = EmptyTable
    /\ changes = [i \in DOMAIN diffs |-> EmptyTable]
    /\ hung = [i \in DOMAIN diffs |-> FALSE]
    /\ final = EmptyTable
    /\ out = [min |-> 0, rows |-> <<>>]
    /\ pc = "aggregate"
    /\ IdleMerge
    /\ IdleSel

NextDelta ==
    \/ \E i \in DOMAIN diffs : ForeachDelta(i)
    \/ \E i \in DOMAIN diffs : ReturnChanges(i)
    \/ Collect
    \/ Report

SpecDelta == InitDelta /\ [][NextDelta]_vars

-----------------------------------------------------------------------------
\* The reduce_with closure on its own: partial tables merged pairwise, any two
\* of them in either order, until one is left.

MergePaths == {"a", "b"}

TableUniverse ==
    UNION {[S -> 1..MaxCount] : S \in SUBSET MergePaths}

InitMerge ==
    /\ inputs \in BoundedSeq(TableUniverse, MaxTables)
    /\ tables = inputs
    /\ pc = "merge"
    /\ IdleAgg
    /\ IdleSel

\* the sequence without its j-th element
Without(seq, j) ==
    [k \in 1..(Len(seq) - 1) |-> IF k < j THEN seq[k] ELSE seq[k + 1]]

\* tables[i] is the accumulator, tables[j] is merged into it and consumed
MergePair(i, j) ==
    /\ pc = "merge"
    /\ i # j
    /\ tables' = Without([tables EXCEPT ![i] = Merge(tables[i], tables[j])], j)
    /\ UNCHANGED <<inputs, pc, aggVars, selVars>>

NextMerge == \E i, j \in DOMAIN tables : MergePair(i, j)

SpecMerge == InitMerge /\ [][NextMerge]_vars

-----------------------------------------------------------------------------
\* Time: git2::Time is seconds since the epoch (an instant) with an offset in
\* minutes; an OffsetDateTime is a local date-time with its offset in seconds.

SecondsPerMinute == 60
MaxOffsetSeconds == 86399   \* UtcOffset holds at most +-23:59:59

\* OffsetDateTime::from_unix_timestamp(since_epoch)
FromUnixOk(since_epoch) == 0 - UnixRange <= since_epoch /\ since_epoch <= UnixRange
FromUnix(since_epoch) == [local |-> since_epoch, offset |-> 0]

\* UtcOffset::from_whole_seconds(seconds)
OffsetOk(seconds) == 0 - MaxOffsetSeconds <= seconds /\ seconds <= MaxOffsetSeconds

\* OffsetDateTime::to_offset(offset): the same instant, seen at another offset
ToOffset(datetime, offset) ==
    [local |-> datetime.local - datetime.offset + offset, offset |-> offset]

\* git2_time_to_offset: Ok for some datetime, or Err(TimeOutOfRange)
Git2TimeOk(time) ==
    /\ FromUnixOk(time.seconds)
    /\ OffsetOk(time.offset_minutes * SecondsPerMinute)

Git2TimeToOffset(time) ==
    ToOffset(FromUnix(time.seconds), time.offset_minutes * SecondsPerMinute)

\* a <= b on OffsetDateTime compares the instants
\* a comparison of the local date-times, which forgets the offsets
LeLocal(a, b) == a.local <= b.local

Le(a, b) == a.local - a.offset <= b.local - b.offset

\* the filter of commits_in_date_range: &from <= time && time <= &to
InRange(from, to, time) == Le(from, time) /\ Le(time, to)

\* the two filters a looked-up commit passes to be yielded
\* a selector without the normalization filter: only the window is tested
SelectedInRangeOnly(time) ==
    InRange(ToOffset(winFrom, 0), ToOffset(winTo, 0), Git2TimeToOffset(time))

Selected(time) ==
    /\ Git2TimeOk(time)
    /\ InRange(ToOffset(winFrom, 0), ToOffset(winTo, 0), Git2TimeToOffset(time))

-----------------------------------------------------------------------------
\* The traversal stage of main: open, commits_in_date_range, pair_commits,
\* get_diff_of_commits, collect. The iterators are lazy: collect pulls a pair,
\* the batching closure pulls it.next() and it.peek(), and each pull runs
\* revwalk steps through the filters until one commit passes or the walk ends.

Graphs ==
    UNION {{g \in [1..n -> SUBSET (1..n)] : \A c \in 1..n : g[c] \subseteq 1..(c - 1)} :
            n \in 1..MaxCommits}

CommitTimes == [seconds : {0, 3600, 7200, 14400}, offset_minutes : {0, 60, 1560}]

WindowTimes == {ToOffset(FromUnix(s), o) : s \in {3600, 7200}, o \in {0, 3600}}

HeadCommit == Len(parents)

RECURSIVE Closure(_)
Closure(S) ==
    LET T == S \cup UNION {parents[c] : c \in S}
    IN IF T = S THEN S ELSE Closure(T)

\* revwalk.push_head(): the walk covers HEAD and its ancestors
Reachable == Closure({HeadCommit})

\* Sort::TIME | Sort::TOPOLOGICAL: a commit comes before its parents; which of
\* several such commits comes next is left to the backend.
Candidates ==
    {c \in Reachable \ walked :
        \A d \in Reachable : c \in parents[d] => d \in walked}

InitSel ==
    /\ parents \in Graphs
    /\ winFrom \in WindowTimes
    /\ winTo \in WindowTimes
    /\ walked = {}
    /\ last = NoStep
    /\ yielded = <<>>
    /\ exhausted = FALSE
    /\ buf = <<>>
    /\ cur = NoCommit
    /\ pairs = <<>>
    /\ diffed = <<>>
    /\ failures = {}
    /\ pc = "open"
    /\ IdleAgg
    /\ IdleMerge

\* Where main goes after a backend call made under expect(): on, or a panic.
\* a caller that carries on after a failed call
AfterIgnored(outcome, on) == on

After(outcome, on) == IF outcome = "ok" THEN on ELSE "panicked"

Failed(outcome) == IF outcome = "ok" THEN failures ELSE failures \cup {outcome}

\* Repository::open(args.repo).expect("not a valid git repo")
Open(outcome) ==
    /\ pc = "open"
    /\ pc' = After(outcome, "revwalk")
    /\ failures' = Failed(outcome)
    /\ UNCHANGED <<parents, winFrom, winTo, walked, last, yielded, exhausted, buf, cur,
                   pairs, diffed, aggVars, mergeVars>>

\* commits_in_date_range up to Ok(commits): revwalk()?, push_head()?,
\* set_sorting()?; main expects the result.
StartRevwalk(outcome) ==
    /\ pc = "revwalk"
    /\ pc' = After(outcome, "next")
    /\ failures' = Failed(outcome)
    /\ UNCHANGED <<parents, winFrom, winTo, walked, last, yielded, exhausted, buf, cur,
                   pairs, diffed, aggVars, mergeVars>>

\* it.next() or it.peek() has to pull from the fused upstream
\* a lookahead that keeps pulling although its buffer already holds an element
PullingEager == pc \in {"next", "peek"} /\ ~exhausted

Pulling == pc \in {"next", "peek"} /\ buf = <<>> /\ ~exhausted

\* revwalk.next() returns None: the upstream is exhausted. it.next() then
\* returns None and the collect ends; it.peek() returns None.
WalkEnd ==
    /\ Pulling
    /\ Candidates = {}
    /\ exhausted' = TRUE
    /\ last' = [kind |-> "end", commit |-> NoCommit, time |-> NoTime]
    /\ pc' = IF pc = "next" THEN "collected" ELSE pc
    /\ UNCHANGED <<parents, winFrom, winTo, walked, yielded, buf, cur, pairs, diffed,
                   failures, aggVars, mergeVars>>

\* revwalk.next() returns Some(Err(_)) for commit c, or find_commit(oid) fails:
\* filter_map(Result::ok) and filter_map(.. .ok()) drop it and the pull goes on.
WalkFailure(c, kind) ==
    /\ Pulling
    /\ c \in Candidates
    /\ walked' = walked \cup {c}
    /\ last' = [kind |-> kind, commit |-> c, time |-> NoTime]
    /\ failures' = failures \cup {kind}
    /\ UNCHANGED <<parents, winFrom, winTo, yielded, exhausted, buf, cur, pairs, diffed,
                   pc, aggVars, mergeVars>>

\* peek_nth's peek stores the element it pulled in the buffer
\* a peek that forgets the element it pulled
PeekDrops(buffer, c) == buffer

PeekStores(buffer, c) == Append(buffer, c)

\* revwalk.next() returns commit c, find_commit succeeds and the commit has
\* the given time: it is dropped by the time filters, or yielded to the pull.
WalkCommit(c, time) ==
    /\ Pulling
    /\ c \in Candidates
    /\ walked' = walked \cup {c}
    /\ last' = [kind |-> "commit", commit |-> c, time |-> time]
    /\ IF Selected(time)
       THEN /\ yielded' = Append(yielded, c)
            /\ IF pc = "next"
               THEN cur' = c /\ pc' = "peek" /\ UNCHANGED buf
               ELSE buf' = PeekStores(buf, c) /\ UNCHANGED <<cur, pc>>
       ELSE UNCHANGED <<yielded, buf, cur, pc>>
    /\ UNCHANGED <<parents, winFrom, winTo, exhausted, pairs, diffed, failures,
                   aggVars, mergeVars>>

\* it.next() finds the lookahead in the buffer
NextFromBuffer ==
    /\ pc = "next"
    /\ buf # <<>>
    /\ cur' = Head(buf)
    /\ buf' = Tail(buf)
    /\ pc' = "peek"
    /\ UNCHANGED <<parents, winFrom, winTo, walked, last, yielded, exhausted, pairs,
                   diffed, failures, aggVars, mergeVars>>

\* it.next() on the exhausted upstream: the batching closure returns None
NextAtEnd ==
    /\ pc = "next"
    /\ buf = <<>>
    /\ exhausted
    /\ pc' = "collected"
    /\ UNCHANGED <<parents, winFrom, winTo, walked, last, yielded, exhausted, buf, cur,
                   pairs, diffed, failures, aggVars, mergeVars>>

\* it.peek() has its answer: the closure returns (new, Some(old.clone())) or
\* (new, None)
EmitPair ==
    /\ pc = "peek"
    /\ buf # <<>> \/ exhausted
    /\ pairs' = Append(pairs, [newer |-> cur,
                               older |-> IF buf # <<>> THEN Head(buf) ELSE NoCommit])
    /\ cur' = NoCommit
    /\ pc' = "diff"
    /\ UNCHANGED <<parents, winFrom, winTo, walked, last, yielded, exhausted, buf,
                   diffed, failures, aggVars, mergeVars>>

\* get_diff_of_commits(old, new, &repo).expect(..): old's tree, new's tree,
\* diff_tree_to_tree; any of them may fail.
GetDiffOfCommits(outcome) ==
    /\ pc = "diff"
    /\ outcome = "old_tree" => pairs[Len(pairs)].older # NoCommit
    /\ pc' = After(outcome, "next")
    /\ failures' = Failed(outcome)
    /\ diffed' = IF outcome = "ok" THEN Append(diffed, pairs[Len(pairs)]) ELSE diffed
    /\ UNCHANGED <<parents, winFrom, winTo, walked, last, yielded, exhausted, buf, cur,
                   pairs, aggVars, mergeVars>>

NextSel ==
    \/ \E outcome \in {"ok", "open"} : Open(outcome)
    \/ \E outcome \in {"ok", "revwalk", "push_head", "set_sorting"} : StartRevwalk(outcome)
    \/ WalkEnd
    \/ \E c \in Candidates, kind \in {"step", "lookup"} : WalkFailure(c, kind)
    \/ \E c \in Candidates, time \in CommitTimes : WalkCommit(c, time)
    \/ NextFromBuffer
    \/ NextAtEnd
    \/ EmitPair
    \/ \E outcome \in {"ok", "old_tree", "new_tree", "diff"} : GetDiffOfCommits(outcome)

SpecSel == InitSel /\ [][NextSel]_vars

-----------------------------------------------------------------------------
\* The whole of main: the traversal stage, then the aggregation stage on the
\* diffs it collected.

\* What a collected diff may hold. The trees are not modelled, so a diff is
\* any of these: no delta, or one modified file.
RunDiffs == {<<>>, <<[status |-> "Modified", old |-> "a", new |-> "a"]>>}

\* diffs.into_par_iter().map(|diff| get_files_changed(diff, &renames)): one
\* worker per collected diff, the rename table empty.
IntoParIter ==
    /\ pc = "collected"
    /\ diffs' \in [DOMAIN diffed -> RunDiffs]
    /\ pos' = [i \in DOMAIN diffed |-> 0]
    /\ st' = [i \in DOMAIN diffed |-> "todo"]
    /\ renames' = EmptyTable
    /\ changes' = [i \in DOMAIN diffed |-> EmptyTable]
    /\ hung' = [i \in DOMAIN diffed |-> FALSE]
    /\ pc' = "aggregate"
    /\ UNCHANGED <<final, out, mergeVars, selVars>>

NextRun ==
    \/ NextSel
    \/ IntoParIter
    \/ NextAgg

SpecRun == InitSel /\ [][NextRun]_vars

\* ===========================================================================
\* Claims
\* ===========================================================================

\* main has the merged table in hand
Aggregated == pc \in {"reduced", "done"}

\* The run handled the diffs as sequential newest-first aggregation does.
RanNewestFirst ==
    /\ Aggregated
    /\ SeqFinal(diffs).ok
    /\ final = SeqFinal(diffs).changes
    /\ renames = SeqFinal(diffs).renames

Delta(status, old, new) == [status |-> status, old |-> old, new |-> new]

\* old.txt is "a", new.txt is "b": C3 renames a to b, C2 modifies a, C1 adds a.
HistoryC1 ==
    << <<Delta("Renamed", "a", "b")>>,
       <<Delta("Modified", "a", "a")>>,
       <<Delta("Added", NoPath, "a")>> >>

\* C1: for the history [C3 renames old.txt to new.txt, C2 modifies old.txt,
\* C1 adds old.txt], aggregated newest-first, the final table is exactly
\* {new.txt: 3}.
C1_FinalIsNew3 ==
    (RanNewestFirst /\ diffs = HistoryC1) => final = [p \in {"b"} |-> 3]

\* rename(B->C), then modified(A), then rename(A->B) in an older commit.
HistoryC2 ==
    << <<Delta("Renamed", "b", "c")>>,
       <<Delta("Modified", "a", "a")>>,
       <<Delta("Renamed", "a", "b")>> >>

\* C2: for the deltas rename(B->C), modified(A), rename(A->B), newest first,
\* the final table counts the modification of A and the rename B->C under C,
\* and nothing under the original name A.
C2_ChainResolvesToTerminal ==
    (RanNewestFirst /\ diffs = HistoryC2) =>
        /\ "c" \in DOMAIN final
        /\ final["c"] = 2
        /\ "a" \notin DOMAIN final

\* C3: after a newest-first aggregation no counted path is a key of the
\* rename table: every counted path is the newest known name of its file.
C3_CountedPathsAreNewest ==
    RanNewestFirst => DOMAIN final \cap DOMAIN renames = {}

\* C4: under every interleaving of the workers the final merged table equals
\* the table of the sequential newest-first aggregation of the same diffs.
C4_ParallelEqualsSequential ==
    Aggregated => (SeqFinal(diffs).ok /\ final = SeqFinal(diffs).changes)

\* C5: the rename table is acyclic in every reachable state: following the
\* mapping from any key reaches a path that is not a key, so the chain-follow
\* loop of a modified delta terminates.
C5_RenameTableAcyclic ==
    \A p \in DOMAIN renames : Resolve(renames, p) # Diverges

\* the commits of a sequence
Range(seq) == {seq[i] : i \in DOMAIN seq}

\* the window's bounds as instants (seconds since the epoch)
FromInstant == winFrom.local - winFrom.offset
ToInstant == winTo.local - winTo.offset

\* C6: commits_in_date_range yields a commit reachable from HEAD if and only
\* if its timestamp can be normalized and from <= time(C) <= to holds, both
\* bounds inclusive, all three compared as instants whatever their offsets.
\* Every revwalk step decides its commit that way (a commit whose step or
\* lookup failed has no timestamp to normalize and is not yielded), only
\* reachable commits are yielded, each once, and a completed walk has stepped
\* over every reachable commit.
C6_YieldedIffInWindow ==
    /\ Range(yielded) \subseteq (Reachable \cap walked)
    /\ \A i, j \in DOMAIN yielded : i # j => yielded[i] # yielded[j]
    /\ last.kind = "commit" =>
          (last.commit \in Range(yielded)
             <=> /\ Git2TimeOk(last.time)
                 /\ FromInstant <= last.time.seconds
                 /\ last.time.seconds <= ToInstant)
    /\ last.kind \in {"step", "lookup"} => last.commit \notin Range(yielded)
    /\ exhausted => walked = Reachable

\* a commit made exactly at the window's upper bound, its offset and the
\* bounds' offsets all different, has been yielded
C6_Witness ==
    /\ last.kind = "commit"
    /\ last.commit \in Range(yielded)
    /\ last.time.seconds = ToInstant
    /\ last.time.offset_minutes = 60
    /\ winTo.offset = 3600
    /\ winFrom.offset = 0

\* C7: pair_commits emits, for an input of N commits, exactly N pairs in input
\* order: pairs[i].newer = input[i], pairs[i].older = input[i+1] for i < N and
\* absent for i = N; nothing for N = 0; no input element is dropped or
\* duplicated by the lookahead.
C7_PairsFollowInput ==
    /\ Len(pairs) <= Len(yielded)
    /\ \A i \in DOMAIN pairs :
          /\ pairs[i].newer = yielded[i]
          /\ pairs[i].older = IF i < Len(yielded) THEN yielded[i + 1] ELSE NoCommit
    /\ pc = "collected" => Len(pairs) = Len(yielded)

\* three commits went in and three pairs came out
C7_Witness ==
    /\ pc = "collected"
    /\ Len(yielded) = 3
    /\ Len(pairs) = 3
    /\ pairs[3].older = NoCommit

\* the entry of path p in a table, 0 when absent
Entry(tbl, p) == IF p \in DOMAIN tbl THEN tbl[p] ELSE 0

RECURSIVE SumEntries(_, _)
SumEntries(seq, p) ==
    IF seq = <<>> THEN 0 ELSE Entry(Head(seq), p) + SumEntries(Tail(seq), p)

KeysOf(seq) == UNION {DOMAIN seq[i] : i \in DOMAIN seq}

\* C8: the merge is associative and commutative: whatever pairs have been
\* merged, in whatever order and grouping, every path's entries still add up
\* to the sum of its entries across the inputs, no path is lost or invented,
\* and the one table left at the end holds exactly those sums.
C8_MergeAnyOrderSums ==
    pc = "merge" =>
        /\ KeysOf(tables) = KeysOf(inputs)
        /\ \A p \in MergePaths : SumEntries(tables, p) = SumEntries(inputs, p)
        /\ Len(tables) = 1 =>
              /\ DOMAIN tables[1] = KeysOf(inputs)
              /\ \A p \in DOMAIN tables[1] : tables[1][p] = SumEntries(inputs, p)
        /\ tables = inputs =>
              /\ \A i, j \in DOMAIN inputs :
                    Merge(inputs[i], inputs[j]) = Merge(inputs[j], inputs[i])
              /\ \A i, j, k \in DOMAIN inputs :
                    Merge(Merge(inputs[i], inputs[j]), inputs[k])
                      = Merge(inputs[i], Merge(inputs[j], inputs[k]))

\* three tables such as {a:1}, {a:2}, {b:1} have been merged down to one
C8_Witness ==
    /\ pc = "merge"
    /\ Len(inputs) = 3
    /\ Len(tables) = 1
    /\ inputs[1] = [p \in {"a"} |-> 1]
    /\ inputs[2] = [p \in {"a"} |-> 2]
    /\ inputs[3] = [p \in {"b"} |-> 1]
    /\ tables[1] = [p \in {"a", "b"} |-> IF p = "a" THEN 3 ELSE 1]

\* C9: every pair with an older commit that is handed to the diff step pairs
\* a commit with one of its parents.
C9_OlderIsParent ==
    \A i \in DOMAIN diffed :
        diffed[i].older # NoCommit => diffed[i].older \in parents[diffed[i].newer]

\* the failures main does not survive
FatalFailures == {"open", "revwalk", "push_head", "set_sorting", "old_tree", "new_tree", "diff"}

\* the failures the filters of commits_in_date_range swallow
AbsorbedFailures == {"step", "lookup"}

\* C10 as stated: every backend failure is fatal for the whole run, none is
\* absorbed.
C10_EveryFailureFatal ==
    failures # {} => pc = "panicked"

\* C10 as amended: a failure to open the repository, to start the revision
\* walk, to read a tree or to compute a diff ends the run at once; an error on
\* a revwalk step or a failed commit lookup never ends it: that commit is
\* left out and the walk goes on.
C10_FatalOrAbsorbed ==
    /\ failures \cap FatalFailures # {} <=> pc = "panicked"
    /\ pc = "collected" => failures \subseteq AbsorbedFailures
    /\ last.kind \in AbsorbedFailures =>
          /\ last.kind \in failures
          /\ last.commit \notin Range(yielded)

\* a diff failed after an earlier one succeeded, and the run has ended there
C10_Witness ==
    /\ pc = "panicked"
    /\ "diff" \in failures
    /\ Len(diffed) = 1
    /\ Len(pairs) = 2

\* the last revwalk step looked up a commit whose time cannot be normalized
MalformedLast == last.kind = "commit" /\ ~Git2TimeOk(last.time)

\* a revwalk step over a commit whose time cannot be normalized
MalformedStep == walked' # walked /\ MalformedLast'

\* C11: a commit whose timestamp or UTC offset cannot be normalized is left
\* out of the selector's output and the traversal continues: the step over it
\* changes nothing but the walk's position (nothing is yielded, buffered,
\* paired or diffed, no failure is raised, main does not panic, the pull that
\* met it is still pulling), and a walk that ends has stepped over every
\* reachable commit.
C11_MalformedSkipped ==
    /\ [](MalformedLast => (last.commit \notin Range(yielded) /\ Pulling))
    /\ [](exhausted => walked = Reachable)
    /\ [][MalformedStep =>
            /\ Pulling'
            /\ UNCHANGED <<yielded, exhausted, buf, cur, pairs, diffed, failures, pc>>]_vars

\* a commit with an offset of 26 hours, made inside the window, was stepped
\* over after one commit had been yielded, and the next pull is under way
C11_Witness ==
    /\ MalformedLast
    /\ last.time.offset_minutes = 1560
    /\ FromInstant <= last.time.seconds /\ last.time.seconds <= ToInstant
    /\ Len(yielded) = 1
    /\ last.commit \notin Range(yielded)
    /\ Candidates # {}
    /\ pc = "peek"

\* the walk has ended and the window selected no commit
EmptySelection == exhausted /\ yielded = <<>>

\* C12: when the window selects no commit (an inverted window included), the
\* pipeline produces no pair, no diff and an empty final table, and goes
\* through collect, map/reduce and the report without a panic.
C12_EmptySelectionEmptyTable ==
    EmptySelection =>
        /\ pairs = <<>>
        /\ diffed = <<>>
        /\ diffs = <<>>
        /\ final = EmptyTable
        /\ out.rows = <<>>
        /\ failures \cap FatalFailures = {}
        /\ pc \in {"collected", "aggregate", "reduced", "done"}

\* a run over three commits with from > to has reported an empty table
C12_Witness ==
    /\ EmptySelection
    /\ FromInstant > ToInstant
    /\ Len(parents) = 3
    /\ walked = Reachable
    /\ final = EmptyTable
    /\ pc = "done"

\* the paths a delta names
DeltaPaths(delta) == {delta.old, delta.new} \ {NoPath}

\* the deltas of a run
AllDeltas(ds) == UNION {Range(ds[i]) : i \in DOMAIN ds}

\* a delta that process_delta counts
Countable(delta) == delta.status \notin Discarded

\* The run is about two files with disjoint rename histories: the paths fall
\* into two groups, each delta names paths of one group only, and each group
\* is touched by some counted delta.
TwoIndependentFiles(ds) ==
    \E F \in SUBSET Paths :
        /\ \A d \in AllDeltas(ds) :
              DeltaPaths(d) \subseteq F \/ DeltaPaths(d) \subseteq (Paths \ F)
        /\ \E d \in AllDeltas(ds) : Countable(d) /\ DeltaPaths(d) \subseteq F
        /\ \E d \in AllDeltas(ds) : Countable(d) /\ DeltaPaths(d) \subseteq (Paths \ F)

\* C13: for two files with disjoint rename histories the final table of the
\* parallel map/reduce equals the table of the sequential newest-first
\* aggregation, under every interleaving and reduction grouping.
C13_IndependentFilesAgree ==
    (Aggregated /\ TwoIndependentFiles(diffs)) =>
        (SeqFinal(diffs).ok /\ final = SeqFinal(diffs).changes)

\* table new has every path of table old, with a count at least as large
Grows(old, new) ==
    /\ DOMAIN old \subseteq DOMAIN new
    /\ \A p \in DOMAIN old : new[p] >= old[p]

\* C14: within a run the count tables only grow. Every step leaves each
\* worker's table and each reduce accumulator with all its paths and with
\* counts at least as large as before; a table consumed by a merge is carried,
\* paths and counts, by the accumulator it was merged into; the final table
\* holds at least what the last accumulator held and is never reduced.
C14_CountsOnlyGrow ==
    [][/\ \A i \in DOMAIN changes :
            IF st'[i] # "absorbed"
            THEN Grows(changes[i], changes'[i])
            ELSE st[i] = "absorbed"
                 \/ \E k \in DOMAIN changes :
                        /\ st'[k] = "done"
                        /\ Grows(changes[i], changes'[k])
                        /\ Grows(changes[k], changes'[k])
       /\ Grows(final, final')
       /\ (pc = "aggregate" /\ pc' = "reduced") =>
              \A i \in DOMAIN changes : Grows(changes[i], final')]_vars

\* two diffs of two deltas each have all been counted under one path: its
\* count grew inside each worker and again in the merge
C14_Witness ==
    /\ Aggregated
    /\ \A i \in DOMAIN diffs : Len(diffs[i]) = 2
    /\ DOMAIN final = {"b"}
    /\ final["b"] = 4

\* C15: the reported rows are exactly the entries of the final table whose
\* count is at least --min (all of them when min is 0), each once, in order
\* of non-increasing count.
C15_ReportFiltersAndSorts ==
    pc = "done" =>
        /\ Range(out.rows) = {<<p, final[p]>> : p \in {q \in DOMAIN final : final[q] >= out.min}}
        /\ \A i, j \in DOMAIN out.rows : i # j => out.rows[i] # out.rows[j]
        /\ \A i, j \in DOMAIN out.rows : i < j => out.rows[i][2] >= out.rows[j][2]
        /\ out.min = 0 => Len(out.rows) = Cardinality(DOMAIN final)

\* with --min 2 the table {a: 2, b: 1} was reported as the one row (a, 2)
C15_WitnessFiltered ==
    /\ pc = "done"
    /\ out.min = 2
    /\ final = [p \in {"a", "b"} |-> IF p = "a" THEN 2 ELSE 1]
    /\ out.rows = << <<"a", 2>> >>

\* with --min 1 the table {a: 1, b: 3} was reported as (b, 3) then (a, 1)
C15_Witness ==
    /\ pc = "done"
    /\ out.min = 1
    /\ final = [p \in {"a", "b"} |-> IF p = "a" THEN 1 ELSE 3]
    /\ out.rows = << <<"b", 3>>, <<"a", 1>> >>

\* worker i has just finished process_delta on a delta
Visited(i) == pos'[i] = pos[i] + 1

\* the delta worker i is at
Visiting(i) == diffs[i][pos[i] + 1]

\* the step added 1 to the count of path p in worker i's table, an absent
\* entry counting as 0, and changed no other entry
CountedOnly(i, p) ==
    changes'[i] = [q \in DOMAIN changes[i] \cup {p} |->
                     IF q = p THEN Entry(changes[i], p) + 1 ELSE changes[i][q]]

\* C16: process_delta classifies each delta so: added or copied adds 1 to the
\* count of the new path; deleted adds 1 to the count of the old path; renamed
\* or type-changed sets rename_table[old] = new and adds 1 to the count of the
\* new path; an absent entry starts from 0 and no other count changes.
C16_Classification ==
    [][\A i \in DOMAIN diffs : Visited(i) =>
          /\ Visiting(i).status \in {"Added", "Copied"} => CountedOnly(i, Visiting(i).new)
          /\ Visiting(i).status = "Deleted" => CountedOnly(i, Visiting(i).old)
          /\ Visiting(i).status \in {"Renamed", "Typechange"} =>
                /\ CountedOnly(i, Visiting(i).new)
                /\ Visiting(i).old \in DOMAIN renames'
                /\ renames'[Visiting(i).old] = Visiting(i).new]_vars

\* an added b, a deleted b and then a rename a -> b have been processed: b
\* went from absent to 1, to 2, to 3, and the rename is in the table
C16_Witness ==
    /\ diffs[1] = <<Delta("Added", NoPath, "b"), Delta("Deleted", "b", NoPath),
                    Delta("Renamed", "a", "b")>>
    /\ pos[1] = 3
    /\ changes[1] = [p \in {"b"} |-> 3]
    /\ renames = [p \in {"a"} |-> "b"]

\* The path reached from p by following the rename table until a path that is
\* not a key; NoPath when the chain comes back to a path already passed.
RECURSIVE ChainEnd(_, _, _)
ChainEnd(r, p, passed) ==
    IF p \notin DOMAIN r THEN p
    ELSE IF p \in passed THEN NoPath
    ELSE ChainEnd(r, r[p], passed \cup {p})

\* C17: a modified delta on old_path adds 1 to the count of the terminal path
\* of the chain old_path -> rename_table[old_path] -> ... in the table as it
\* stands at the lookup, and to old_path itself when it is not a key; it
\* changes no other count and not the table. The lookup fails to return only
\* when the chain has no terminal path.
C17_ModifiedResolvesChain ==
    [][\A i \in DOMAIN diffs :
          /\ (Visited(i) /\ Visiting(i).status = "Modified") =>
                /\ ChainEnd(renames, Visiting(i).old, {}) # NoPath
                /\ CountedOnly(i, ChainEnd(renames, Visiting(i).old, {}))
                /\ Visiting(i).old \notin DOMAIN renames => CountedOnly(i, Visiting(i).old)
                /\ renames' = renames
          /\ (~hung[i] /\ hung'[i]) =>
                /\ Visiting(i).status = "Modified"
                /\ ChainEnd(renames, Visiting(i).old, {}) = NoPath]_vars

\* renames b -> c and a -> b are in the table and a modified a has been
\* counted under c, two hops away
C17_Witness ==
    /\ diffs[1] = <<Delta("Renamed", "b", "c"), Delta("Renamed", "a", "b"),
                    Delta("Modified", "a", "a")>>
    /\ pos[1] = 3
    /\ renames = [p \in {"a", "b"} |-> IF p = "a" THEN "b" ELSE "c"]
    /\ changes[1] = [p \in {"b", "c"} |-> IF p = "b" THEN 1 ELSE 2]

\* table new is table r with the one entry old -> new inserted
OneInsertion(r, new, old, to) ==
    /\ DOMAIN new = DOMAIN r \cup {old}
    /\ new[old] = to
    /\ \A p \in DOMAIN r \ {old} : new[p] = r[p]

\* C18: the rename table is changed only by renamed and type-changed deltas,
\* by exactly one insertion each; unmodified, ignored, untracked, unreadable
\* and conflicted deltas leave the rename table and the count table as they
\* were; added, copied, deleted and modified deltas leave the rename table as
\* it was; no other step of the run touches the rename table.
C18_RenameTableFrame ==
    [][/\ \A i \in DOMAIN diffs : Visited(i) =>
             /\ Visiting(i).status \in Discarded =>
                    (renames' = renames /\ changes'[i] = changes[i])
             /\ Visiting(i).status \in {"Added", "Copied", "Deleted", "Modified"} =>
                    renames' = renames
             /\ Visiting(i).status \in {"Renamed", "Typechange"} =>
                    OneInsertion(renames, renames', Visiting(i).old, Visiting(i).new)
       /\ renames' # renames =>
             \E i \in DOMAIN diffs :
                 Visited(i) /\ Visiting(i).status \in {"Renamed", "Typechange"}]_vars

\* after a rename a -> b, a copy c -> a and an ignored a have been processed
\* and the table still holds the one rename
C18_Witness ==
    /\ diffs[1] = <<Delta("Renamed", "a", "b"), Delta("Copied", "c", "a"),
                    Delta("Ignored", "a", "a")>>
    /\ pos[1] = 3
    /\ renames = [p \in {"a"} |-> "b"]
    /\ changes[1] = [p \in {"a", "b"} |-> 1]

\* the element it.next() handed to the closure, not yet returned in a pair
InHand == IF cur # NoCommit THEN 1 ELSE 0

\* C19: while pair_commits is pulled it holds at most one lookahead element:
\* the buffer of the peek never holds more than one commit, every commit read
\* from the selector is either emitted as the newer element of a pair, in the
\* closure's hand to be emitted by the pull under way, or that one lookahead,
\* and between two pulls at most one commit has been read that is not yet the
\* newer element of a pair.
C19_OneLookahead ==
    /\ Len(buf) <= 1
    /\ Len(yielded) = Len(pairs) + InHand + Len(buf)
    /\ pc \in {"next", "diff", "collected", "panicked"} => InHand = 0
    /\ InHand = 0 => Len(yielded) <= Len(pairs) + 1

\* one pair has been emitted, its older commit is the lookahead in the buffer,
\* and a third commit has not been read from the walk yet
C19_Witness ==
    /\ pc = "diff"
    /\ Len(pairs) = 1
    /\ Len(yielded) = 2
    /\ buf = <<yielded[2]>>
    /\ pairs[1].older = yielded[2]
    /\ Candidates # {}

\* the sum of f over the set S of its arguments
RECURSIVE SumFn(_, _)
SumFn(f, S) ==
    IF S = {} THEN 0
    ELSE LET x == CHOOSE y \in S : TRUE
         IN f[x] + SumFn(f, S \ {x})

\* the sum of all counts of a table
Total(tbl) == SumFn(tbl, DOMAIN tbl)

\* the countable deltas among the first n of diff i
CountableUpTo(i, n) == Cardinality({k \in 1..n : Countable(diffs[i][k])})

\* C20: counts are conserved. While the workers run, the counts of all tables
\* not yet merged away add up to the number of countable deltas processed so
\* far; whenever aggregation completes, the counts of the final table add up
\* to the number of countable deltas (added, copied, deleted, renamed,
\* type-changed, modified) of all diffs, whatever the interleaving and the
\* order of the merges: a countable delta adds exactly 1, a discarded one 0.
C20_CountConservation ==
    /\ pc = "aggregate" =>
          SumFn([i \in DOMAIN changes |-> Total(changes[i])], DOMAIN changes)
            = SumFn([i \in DOMAIN diffs |-> CountableUpTo(i, pos[i])], DOMAIN diffs)
    /\ Aggregated =>
          Total(final)
            = SumFn([i \in DOMAIN diffs |-> CountableUpTo(i, Len(diffs[i]))], DOMAIN diffs)

\* four deltas, one of them unmodified, came out as three counts, two of
\* them under b after the rename a -> b was seen before the modified a
C20_Witness ==
    /\ Aggregated
    /\ diffs[1] = <<Delta("Renamed", "a", "b"), Delta("Unmodified", "a", "a")>>
    /\ diffs[2] = <<Delta("Modified", "a", "a"), Delta("Deleted", "b", NoPath)>>
    /\ final = [p \in {"b"} |-> 3]

====
